---- MODULE Spec2Model ----
(***************************************************************************)
(* State-machine model of PyQt5_Custom_Circular_Gauge_Widget.py: the       *)
(* CircularGauge widget (constructor, setValue, paintEvent and its draw    *)
(* helpers) and the demo window Windows (a QSlider wired to the gauge).    *)
(*                                                                         *)
(* Numbers are exact rationals [n, d] in lowest terms with d > 0; the      *)
(* rounding of binary floating point is not part of this model.            *)
(***************************************************************************)
EXTENDS Integers, Sequences, FiniteSets, TLC

\* ---------------------------------------------------------------- bounds
MaxNum == 1
MaxSteps == 2

\* ------------------------------------------------------ exact arithmetic
Abs(x) == IF x < 0 THEN -x ELSE x

RECURSIVE Gcd(_, _)
Gcd(a, b) == IF b = 0 THEN a ELSE Gcd(b, a % b)

Rat(n, d) ==
    LET g == Gcd(Abs(n), Abs(d))
        s == IF d < 0 THEN -1 ELSE 1
    IN  [n |-> (s * n) \div g, d |-> (s * d) \div g]

Num(k) == [n |-> k, d |-> 1]

RAdd(a, b) == Rat(a.n * b.d + b.n * a.d, a.d * b.d)
RSub(a, b) == Rat(a.n * b.d - b.n * a.d, a.d * b.d)
RMul(a, b) == Rat(a.n * b.n, a.d * b.d)
\* a / b; the caller has excluded b = 0 (ZeroDivisionError)
RDiv(a, b) == Rat(a.n * b.d, a.d * b.n)
RLt(a, b) == a.n * b.d < b.n * a.d
RLe(a, b) == a.n * b.d <= b.n * a.d
RGt(a, b) == RLt(b, a)
RGe(a, b) == RLe(b, a)

\* ----------------------------------------------------------- input sets
\* range limits handed to the constructor
Limits == {Num(k) : k \in (-1)..MaxNum}
\* values handed to the constructor and to setValue (halves, in and out of
\* every range the limits can form)
Values == {Rat(k, 2) : k \in (-(2 * MaxNum + 2))..(2 * MaxNum + 2)}
StepCounts == (-1)..MaxSteps
Angles == {Num(-210), Num(30)}
Brushes == {"None", "white"}

\* an attribute that has not been assigned
Unset == [n |-> 0, d |-> 0]
NoPainter == [saved |-> <<>>, xform |-> <<>>, warnings |-> 0, active |-> FALSE]
NoCall == [op |-> "none"]

VARIABLES
    pc,                       \* position of the widget's single (UI) thread
    min_value, max_value, value, steps,
    start_angle, end_angle, angle_range,
    inner_circle_brush_color,
    updatePending,            \* a paint event posted by update() is waiting
    painter,                  \* the QPainter of the running paintEvent
    frame,                    \* primitives drawn by the current/last paintEvent
    exc,                      \* exception in flight inside paintEvent
    escaped,                  \* exception that left the last call
    printed,                  \* the last paintEvent printed "Error in paintEvent"
    lastCall,                 \* the last call made on the widget, with arguments
    i, angle_step,            \* locals of the running drawTicks / drawNumbers
    slider                    \* value of the demo window's QSlider

config == <<min_value, max_value, steps, start_angle, end_angle, angle_range,
            inner_circle_brush_color>>
vars == <<pc, min_value, max_value, value, steps, start_angle, end_angle,
          angle_range, inner_circle_brush_color, updatePending, painter,
          frame, exc, escaped, printed, lastCall, i, angle_step, slider>>

NoSlider == "none"

Init ==
    /\ pc = "new"
    /\ min_value = Unset /\ max_value = Unset /\ value = Unset
    /\ steps = 0
    /\ start_angle = Unset /\ end_angle = Unset /\ angle_range = Unset
    /\ inner_circle_brush_color = "None"
    /\ updatePending = FALSE
    /\ painter = NoPainter
    /\ frame = <<>>
    /\ exc = "none"
    /\ escaped = "none"
    /\ printed = FALSE
    /\ lastCall = NoCall
    /\ i = 0
    /\ angle_step = Unset
    /\ slider = NoSlider

\* ------------------------------------------------- CircularGauge.__init__
\* variant: the test written with > instead of >=
CtorRejectsStrict(mn, mx) == RGt(mn, mx)

\* the test of line 67
CtorRejects(mn, mx) == RGe(mn, mx)

\* the attribute assignments of lines 69-75 and 84
CtorAssign(mn, mx, v, st, sa, ea, hole) ==
    /\ min_value' = mn
    /\ max_value' = mx
    /\ value' = v
    /\ steps' = st
    /\ start_angle' = sa
    /\ end_angle' = ea
    /\ angle_range' = RSub(ea, sa)
    /\ inner_circle_brush_color' = hole

CircularGauge(mn, mx, v, st, sa, ea, hole) ==
    /\ pc = "new"
    /\ lastCall' = [op |-> "__init__", min_value |-> mn, max_value |-> mx,
                    value |-> v]
    /\ IF CtorRejects(mn, mx)
       THEN /\ pc' = "failed"
            /\ escaped' = "ValueError"
            /\ UNCHANGED <<min_value, max_value, value, steps, start_angle,
                           end_angle, angle_range, inner_circle_brush_color>>
       ELSE /\ pc' = "idle"
            /\ escaped' = "none"
            /\ CtorAssign(mn, mx, v, st, sa, ea, hole)
    /\ UNCHANGED <<updatePending, painter, frame, exc, printed, i, angle_step,
                   slider>>

\* ------------------------------------------------- CircularGauge.setValue
\* variant: the elif branch of lines 105-106 left out
ClampNoUpper(v) ==
    IF RLt(v, min_value) THEN min_value ELSE v

\* lines 103-108
Clamp(v) ==
    IF RLt(v, min_value) THEN min_value
    ELSE IF RGt(v, max_value) THEN max_value
    ELSE v

\* variant: update() called only when the stored value changes
setValueIfChanged(v) ==
    /\ pc = "idle"
    /\ value' = Clamp(v)
    /\ updatePending' = (updatePending \/ Clamp(v) # value)
    /\ escaped' = "none"
    /\ lastCall' = [op |-> "setValue", value |-> v]
    /\ UNCHANGED <<pc, min_value, max_value, steps, start_angle, end_angle,
                   angle_range, inner_circle_brush_color, painter, frame,
                   exc, printed, i, angle_step>>

setValue(v) ==
    /\ pc = "idle"
    /\ value' = Clamp(v)
    /\ updatePending' = TRUE
    /\ escaped' = "none"
    /\ lastCall' = [op |-> "setValue", value |-> v]
    /\ UNCHANGED <<pc, min_value, max_value, steps, start_angle, end_angle,
                   angle_range, inner_circle_brush_color, painter, frame,
                   exc, printed, i, angle_step>>

\* ------------------------------------------------------------- QPainter
\* painter.save(): push the current state
Save(p) == [p EXCEPT !.saved = Append(@, p.xform)]

\* painter.restore(): pop the saved state; with nothing saved Qt prints
\* "QPainter::restore: Unbalanced save/restore" and changes nothing
Restore(p) ==
    IF Len(p.saved) = 0
    THEN [p EXCEPT !.warnings = @ + 1]
    ELSE [p EXCEPT !.xform = p.saved[Len(p.saved)],
                   !.saved = SubSeq(p.saved, 1, Len(p.saved) - 1)]

\* painter.translate(...) / painter.rotate(...): compose a transformation
Transform(p, t) == [p EXCEPT !.xform = Append(@, t)]

\* a draw call: the primitive lands in the frame under the current
\* transformation
Draw(st, item) ==
    [st EXCEPT !.frame = Append(@, [item |-> item, xform |-> st.painter.xform])]

DoSave(st) == [st EXCEPT !.painter = Save(st.painter)]
DoRestore(st) == [st EXCEPT !.painter = Restore(st.painter)]
DoTransform(st, t) == [st EXCEPT !.painter = Transform(st.painter, t)]
Raise(st, e) == [st EXCEPT !.exc = e]

\* ------------------------------------------------------- normalize_angle
normalize_angle(angle) == Rat(angle.n % (360 * angle.d), angle.d)

\* ---------------------------------------------------------- drawOuterArc
ArcItem(prim) ==
    [prim |-> prim,
     startAngle |-> RSub(Num(0), normalize_angle(start_angle)),
     spanAngle |-> RSub(Num(0), angle_range)]

drawOuterArc(st) == DoRestore(Draw(st, ArcItem("outerArc")))

\* --------------------------------------------------------- drawOuterArc2
drawOuterArc2(st) == DoRestore(Draw(st, ArcItem("outerArc2")))

\* ------------------------------------------------------------- drawTicks
\* variant: the loop index counted from 1
StepAngleFromOne(k, step) == RAdd(start_angle, RMul(Num(k + 1), step))

\* angle of tick / label i (lines 254 and 279)
StepAngle(k, step) == RAdd(start_angle, RMul(Num(k), step))

\* lines 247-248 (drawTicks) and 267-272 (drawNumbers): save, then
\* angle_step (ZeroDivisionError when steps = 0)
LoopEntry(st) ==
    LET s1 == DoSave(st)
    IN  IF steps = 0 THEN Raise(s1, "ZeroDivisionError") ELSE s1

\* lines 251-261: one iteration of the loop
TickBody(k, step, st) ==
    LET angle == StepAngle(k, step)
        s1 == Draw(st, [prim |-> "tick", i |-> k, angle |-> angle])
    IN  DoRestore(s1)

\* ----------------------------------------------------------- drawNumbers
\* lines 279-291: one iteration of the loop
LabelBody(k, step, st) ==
    LET angle == StepAngle(k, step)
        val == RAdd(min_value,
                    RDiv(RMul(Num(k), RSub(max_value, min_value)), Num(steps)))
        s1 == DoSave(st)
        s2 == DoTransform(s1, "translate")
        s3 == DoTransform(s2, "rotate")
        s4 == Draw(s3, [prim |-> "label", i |-> k, angle |-> angle, val |-> val])
    IN  DoRestore(s4)

\* ------------------------------------------------------------ drawNeedle
\* variant: the ratio taken of the value, not of its offset from min_value
NeedleAngleNoOffset(v) ==
    LET value_range == RSub(max_value, min_value)
        value_ratio == IF value_range = Num(0) THEN Num(0)
                       ELSE RDiv(v, value_range)
    IN  RAdd(start_angle, RMul(value_ratio, angle_range))

\* lines 298-305
NeedleAngle(v) ==
    LET value_range == RSub(max_value, min_value)
        value_ratio == IF value_range = Num(0) THEN Num(0)
                       ELSE RDiv(RSub(v, min_value), value_range)
    IN  RAdd(start_angle, RMul(value_ratio, angle_range))

drawNeedle(st) ==
    LET angle == NeedleAngle(value)
        s0 == DoSave(st)
        \* shadow of the needle
        a1 == DoSave(s0)
        a2 == DoTransform(DoTransform(a1, "rotate"), "translate")
        a3 == DoRestore(Draw(a2, [prim |-> "needleShadow", angle |-> angle]))
        \* the needle
        b1 == DoTransform(DoSave(a3), "rotate")
        b2 == DoRestore(Draw(b1, [prim |-> "needle", angle |-> angle]))
        \* shadow of the ring
        c1 == DoTransform(DoTransform(DoSave(b2), "rotate"), "translate")
        c2 == DoRestore(Draw(c1, [prim |-> "ringShadow", angle |-> angle]))
        \* the ring
        d1 == Draw(c2, [prim |-> "ring"])
        \* the inner circle (hole)
        e1 == IF inner_circle_brush_color # "None"
              THEN Draw(d1, [prim |-> "hole"])
              ELSE d1
    IN  DoRestore(e1)

\* ------------------------------------------------------------ paintEvent
\* variant: the numbers drawn before the ticks
AfterNumbersFirst(step) ==
    CASE step = "drawOuterArc" -> "drawNumbers"
      [] step = "drawNumbers" -> "drawTicks"
      [] step = "drawTicks" -> "drawOuterArc2"
      [] step = "drawOuterArc2" -> "drawNeedle"
      [] step = "drawNeedle" -> "done"

\* the order of the calls in the try block (lines 124-136)
After(step) ==
    CASE step = "drawOuterArc" -> "drawTicks"
      [] step = "drawTicks" -> "drawNumbers"
      [] step = "drawNumbers" -> "drawOuterArc2"
      [] step = "drawOuterArc2" -> "drawNeedle"
      [] step = "drawNeedle" -> "done"

PaintVars == <<min_value, max_value, value, steps, start_angle, end_angle,
               angle_range, inner_circle_brush_color, slider>>

\* the toolkit delivers a paint event (posted by update(), or of its own
\* accord: expose, resize)
paintEvent ==
    /\ pc = "idle"
    /\ pc' = "try"
    /\ updatePending' = FALSE
    /\ painter' = NoPainter
    /\ frame' = <<>>
    /\ exc' = "none"
    /\ escaped' = "none"
    /\ printed' = FALSE
    /\ lastCall' = [op |-> "paintEvent"]
    /\ UNCHANGED <<i, angle_step>>
    /\ UNCHANGED PaintVars

InTry == {"try", "drawOuterArc", "drawTicks", "drawTicks.for", "drawNumbers",
          "drawNumbers.for", "drawOuterArc2", "drawNeedle"}

\* a drawing fault of the toolkit at this point of the try block
ToolkitFault ==
    /\ pc \in InTry
    /\ exc' = "RuntimeError"
    /\ pc' = "except"
    /\ UNCHANGED <<updatePending, painter, frame, escaped, printed, lastCall,
                   i, angle_step>>
    /\ UNCHANGED PaintVars

\* lines 114-121: QPainter(self) ... painter.translate(center)
CreatePainter ==
    /\ pc = "try"
    /\ painter' = [saved |-> <<>>, xform |-> <<"center">>, warnings |-> 0,
                   active |-> TRUE]
    /\ pc' = "drawOuterArc"
    /\ UNCHANGED <<updatePending, frame, exc, escaped, printed, lastCall,
                   i, angle_step>>
    /\ UNCHANGED PaintVars

Now == [painter |-> painter, frame |-> frame, exc |-> exc]

\* the painter, the frame and the exception a piece of a helper leaves
Leaves(res) ==
    /\ painter' = res.painter
    /\ frame' = res.frame
    /\ exc' = res.exc
    /\ UNCHANGED <<updatePending, escaped, printed, lastCall>>
    /\ UNCHANGED PaintVars

\* one call of the try block that has no loop
Call(step, res) ==
    /\ pc = step
    /\ Leaves(res)
    /\ pc' = IF res.exc # "none" THEN "except" ELSE After(step)
    /\ UNCHANGED <<i, angle_step>>

\* the head of drawTicks / drawNumbers, up to the for statement
Enter(step, res) ==
    /\ pc = step
    /\ Leaves(res)
    /\ IF res.exc # "none"
       THEN pc' = "except" /\ UNCHANGED <<i, angle_step>>
       ELSE /\ pc' = step \o ".for"
            /\ i' = 0
            /\ angle_step' = RDiv(angle_range, Num(steps))

\* for i in range(self.steps + 1): one iteration, or the end of the loop
\* with the helper's closing painter.restore()
For(step, body) ==
    /\ pc = step \o ".for"
    /\ IF i < steps + 1
       THEN /\ Leaves(body)
            /\ i' = i + 1
            /\ UNCHANGED <<pc, angle_step>>
       ELSE /\ Leaves(DoRestore(Now))
            /\ pc' = After(step)
            /\ i' = 0
            /\ angle_step' = Unset

DrawOuterArc == Call("drawOuterArc", drawOuterArc(Now))
DrawTicks == Enter("drawTicks", LoopEntry(Now))
DrawTicksFor == For("drawTicks", TickBody(i, angle_step, Now))
DrawNumbers == Enter("drawNumbers", LoopEntry(Now))
DrawNumbersFor == For("drawNumbers", LabelBody(i, angle_step, Now))
DrawOuterArc2 == Call("drawOuterArc2", drawOuterArc2(Now))
DrawNeedle == Call("drawNeedle", drawNeedle(Now))

\* variant: the except clause re-raises after printing
ReraisedAll(e) == e

\* what the except clause lets out of paintEvent (nothing: no re-raise)
Reraised(e) == "none"

\* lines 138-139: except Exception as e: print(...)
Except ==
    /\ pc = "except"
    /\ printed' = TRUE
    /\ escaped' = Reraised(exc)
    /\ exc' = "none"
    /\ painter' = NoPainter
    /\ pc' = "idle"
    /\ i' = 0
    /\ angle_step' = Unset
    /\ UNCHANGED <<updatePending, frame, lastCall>>
    /\ UNCHANGED PaintVars

\* the try block ran to its end: paintEvent returns
Return ==
    /\ pc = "done"
    /\ painter' = NoPainter
    /\ pc' = "idle"
    /\ UNCHANGED <<updatePending, frame, exc, escaped, printed, lastCall,
                   i, angle_step>>
    /\ UNCHANGED PaintVars

Paint ==
    \/ paintEvent
    \/ CreatePainter
    \/ DrawOuterArc
    \/ DrawTicks
    \/ DrawTicksFor
    \/ DrawNumbers
    \/ DrawNumbersFor
    \/ DrawOuterArc2
    \/ DrawNeedle
    \/ ToolkitFault
    \/ Except
    \/ Return

Construct ==
    \E mn \in Limits, mx \in Limits, v \in Values, st \in StepCounts,
       sa \in Angles, ea \in Angles, hole \in Brushes :
        CircularGauge(mn, mx, v, st, sa, ea, hole)

\* a call of setValue by the widget's owner
SetValue == \E v \in Values : setValue(v) /\ UNCHANGED slider

Next == Construct \/ SetValue \/ Paint

Spec == Init /\ [][Next]_vars

\* ------------------------------------------------------------- Windows
DemoMin == 0
DemoMax == 30
DemoSteps == 15
SliderMinimum == 0
SliderMaximum == 30

\* the state Windows.__init__ leaves (lines 380-402)
WindowsInit ==
    /\ pc = "idle"
    /\ min_value = Num(DemoMin) /\ max_value = Num(DemoMax) /\ value = Num(0)
    /\ steps = DemoSteps
    /\ start_angle = Num(-210) /\ end_angle = Num(30)
    /\ angle_range = RSub(Num(30), Num(-210))
    /\ inner_circle_brush_color = "white"
    /\ updatePending = FALSE
    /\ painter = NoPainter
    /\ frame = <<>>
    /\ exc = "none"
    /\ escaped = "none"
    /\ printed = FALSE
    /\ lastCall = [op |-> "__init__", min_value |-> Num(DemoMin),
                   max_value |-> Num(DemoMax), value |-> Num(0)]
    /\ i = 0
    /\ angle_step = Unset
    /\ slider = 0

\* variant: the slot scales the slider position before forwarding it
ForwardedScaled(n) == Rat(n, 10)

\* the argument the slot hands to the gauge (lines 402 and 416)
Forwarded(n) == Num(n)

updateVoltage(n) == setValue(Forwarded(n))

\* the user moves the slider: QSlider emits valueChanged(n) when its value
\* changes, and the connected lambda runs
valueChanged(n) ==
    /\ n # slider
    /\ slider' = n
    /\ updateVoltage(n)

SliderMoved == \E n \in SliderMinimum..SliderMaximum : valueChanged(n)

DemoNext == SliderMoved \/ Paint

DemoSpec == WindowsInit /\ [][DemoNext]_vars

\* =============================================================== claims
Constructed == pc \notin {"new", "failed"}
Painting == pc \in InTry \cup {"done", "except"}
Items(prim) == SelectSeq(frame, LAMBDA e : e.item.prim = prim)
Prims == [k \in 1..Len(frame) |-> frame[k].item.prim]
Repeat(x, n) == [k \in 1..n |-> x]
Iterations == IF steps < 0 THEN 0 ELSE steps + 1
Midpoint == RDiv(RAdd(min_value, max_value), Num(2))

\* C1: after setValue(v) the stored value is min_value when v < min_value,
\* max_value when v > max_value and v itself when min_value <= v <= max_value,
\* and the call raised nothing.
C1_SetValueClamps ==
    lastCall.op = "setValue" =>
        LET v == lastCall.value
        IN  /\ RLt(v, min_value) => value = min_value
            /\ RGt(v, max_value) => value = max_value
            /\ (RLe(min_value, v) /\ RLe(v, max_value)) => value = v
            /\ escaped = "none"
            /\ pc = "idle"

C1_Witness ==
    /\ lastCall.op = "setValue"
    /\ RGt(lastCall.value, max_value)
    /\ value = max_value

\* C2: in every state of a constructed gauge, whatever the value argument of
\* the constructor, min_value <= value <= max_value.
C2_ValueAlwaysInRange ==
    Constructed => (RLe(min_value, value) /\ RLe(value, max_value))

\* C3: the constructor raises ValueError, and leaves no gauge to call, exactly
\* when min_value >= max_value; with min_value < max_value it raises nothing
\* and stores the limits, whatever the other arguments.
C3_CtorRaisesIffBadRange ==
    /\ lastCall.op = "__init__" =>
          IF RGe(lastCall.min_value, lastCall.max_value)
          THEN escaped = "ValueError" /\ pc = "failed"
          ELSE /\ escaped = "none" /\ pc = "idle"
               /\ min_value = lastCall.min_value
               /\ max_value = lastCall.max_value
    /\ pc = "failed" => ~ENABLED (SetValue \/ Paint)

C3_Witness ==
    /\ pc = "failed"
    /\ escaped = "ValueError"
    /\ lastCall.min_value = lastCall.max_value

\* C4: a fault in any step of a render ends in the except clause, which
\* prints it and returns without letting it out of paintEvent; no step of a
\* render changes the value or the configuration; and after a failed render
\* the next paintEvent can run and starts from a fresh painter and frame.
C4_RenderFaultContained ==
    /\ [][exc' # "none" => pc' = "except"]_vars
    /\ [][(pc = "drawTicks" /\ steps = 0) => pc' = "except"]_vars
    /\ [][pc = "except" =>
            (pc' = "idle" /\ printed' /\ escaped' = "none" /\ exc' = "none")]_vars
    /\ [][lastCall'.op = "paintEvent" =>
            (value' = value /\ config' = config /\ escaped' = "none")]_vars
    /\ [][(pc = "idle" /\ pc' = "try") =>
            (painter' = NoPainter /\ frame' = <<>> /\ exc' = "none" /\ ~printed')]_vars
    /\ [](pc = "idle" => ENABLED paintEvent)

C4_Witness ==
    /\ pc = "idle"
    /\ lastCall.op = "paintEvent"
    /\ printed
    /\ steps = 0
    /\ Len(frame) = 1
    /\ escaped = "none"

\* C5: a render that reaches the end of the try block has drawn, in this
\* order and nothing else: the outer arc, every tick, every label, the overlay
\* arc, the needle shadow, the needle, the ring shadow, the ring and, when a
\* hole colour is configured, the hole; each helper starts with the output of
\* all earlier helpers complete.
C5_DrawOrder ==
    /\ pc = "done" =>
          Prims = <<"outerArc">> \o Repeat("tick", Iterations)
                    \o Repeat("label", Iterations)
                    \o <<"outerArc2", "needleShadow", "needle", "ringShadow", "ring">>
                    \o (IF inner_circle_brush_color # "None" THEN <<"hole">> ELSE <<>>)
    /\ pc = "drawTicks" => Prims = <<"outerArc">>
    /\ pc = "drawNumbers" => Prims = <<"outerArc">> \o Repeat("tick", Iterations)
    /\ pc = "drawOuterArc2" =>
          Prims = <<"outerArc">> \o Repeat("tick", Iterations)
                    \o Repeat("label", Iterations)
    /\ pc = "drawNeedle" =>
          Prims = <<"outerArc">> \o Repeat("tick", Iterations)
                    \o Repeat("label", Iterations) \o <<"outerArc2">>

C5_Witness ==
    /\ pc = "done"
    /\ steps >= 2
    /\ inner_circle_brush_color # "None"
    /\ Len(frame) = 9 + 2 * steps

C8_RedrawShowsCurrentValue ==
    /\ lastCall.op = "setValue" => updatePending
    /\ (Painting /\ Len(Items("needle")) > 0) =>
          Items("needle")[1].item.angle = NeedleAngle(value)
    /\ (pc = "idle" /\ ~updatePending /\ Len(Items("needle")) > 0) =>
          Items("needle")[1].item.angle = NeedleAngle(value)

\* a stale frame is on screen after a setValue, and its redraw is pending
C8_Witness ==
    /\ pc = "idle"
    /\ lastCall.op = "setValue"
    /\ Len(Items("needle")) > 0
    /\ Items("needle")[1].item.angle # NeedleAngle(value)
    /\ updatePending

\* C9: within a paintEvent no painter.restore() runs without an open
\* painter.save(), and every draw helper is entered, and left, with no saved
\* state open and with the translation to the widget centre as the current
\* transformation.
C9_SaveRestoreBalanced ==
    painter.active =>
        /\ painter.warnings = 0
        /\ pc \in {"drawOuterArc", "drawTicks", "drawNumbers", "drawOuterArc2",
                   "drawNeedle", "done"} =>
              (Len(painter.saved) = 0 /\ painter.xform = <<"center">>)

\* C10: in the demo window the gauge's stored value equals the slider's value.
C10_GaugeFollowsSlider == value = Num(slider)

C10_Witness ==
    /\ slider = 17
    /\ value = Num(17)
    /\ lastCall.op = "setValue"
    /\ lastCall.value = Num(17)

====
